---- MODULE Spec2Model ----
(***************************************************************************)
(* Model of gas_oracle.ts: a gas-fee oracle that queries the configured    *)
(* RPC providers for eth_feeHistory, filters outliers per column with a    *)
(* MAD filter, takes medians and prints a fee recommendation.              *)
(*                                                                         *)
(* Three specifications share the variables:                               *)
(*   Spec     the whole run of the program over its three-entry RPCS       *)
(*            table (collection loop with its awaits, empty check,         *)
(*            aggregation, report);                                        *)
(*   SpecAgg  the part of the run after the collection loop (lines 49-70), *)
(*            started from a SampleSet of up to MaxSamples samples, so     *)
(*            that the outlier filter (inactive below 4 samples) acts;     *)
(*   SpecFn   the pure functions median, rmOutliers and the recommendation *)
(*            formula applied to bounded inputs.                           *)
(*                                                                         *)
(* Numbers are JavaScript doubles in the source.  Every value of the model *)
(* is an integer far below 2^47, where double arithmetic on the program's  *)
(* expressions is exact (sums, differences, halving followed by floor) or, *)
(* for floor(b * (1 + 0.12)), agrees with floor(112*b/100): 1 + 0.12       *)
(* evaluates to the double nearest 1.12 and the product's rounding error   *)
(* is far smaller than the distance 1/25 of 112*b/100 to the next integer. *)
(* A hex string "0x64" is the sequence of its digits <<6, 4>>.             *)
(* The report's "pretty" strings (toFixed(2) of n/1e9) are left out.       *)
(***************************************************************************)
EXTENDS Integers, Sequences, FiniteSets, TLC

VARIABLES pc, env, idx, samples, replies, resolved, stdout, stderr, exitCode,
          arg, baseArg, prioArg, ret

vars == <<pc, env, idx, samples, replies, resolved, stdout, stderr, exitCode,
          arg, baseArg, prioArg, ret>>

fnVars == <<arg, baseArg, prioArg, ret>>

-----------------------------------------------------------------------------
(* Bounds of the model *)

\* longest input sequence of median / rmOutliers in SpecFn
MaxLen == 5
\* largest element of those sequences
MaxVal == 5
\* largest SampleSet handed to the aggregation in SpecAgg
MaxSamples == 4
\* base-fee medians 0..MaxBase are fed to the formula in SpecFn
MaxBase == 30

-----------------------------------------------------------------------------
(* Helpers *)

Range(s) == {s[i] : i \in 1..Len(s)}

Abs(n) == IF n < 0 THEN -n ELSE n

Max(a, b) == IF a >= b THEN a ELSE b

-----------------------------------------------------------------------------
(* Array.prototype.sort((a,b)=>a-b): ascending numeric order *)

RECURSIVE Insert(_, _)
Insert(x, s) ==
    IF s = <<>> THEN <<x>>
    ELSE IF x < Head(s) THEN <<x>> \o s
    ELSE <<Head(s)>> \o Insert(x, Tail(s))

RECURSIVE SortAsc(_)
SortAsc(s) == IF s = <<>> THEN <<>> ELSE Insert(s[Len(s)], SortAsc(SubSeq(s, 1, Len(s) - 1)))

-----------------------------------------------------------------------------
(* median, lines 29-33.  The source indexes from 0, sequences here from 1. *)

medianUnsorted(nums) ==
    LET xs == nums
        m == Len(xs) \div 2
    IN  IF Len(xs) # 0
        THEN (IF Len(xs) % 2 # 0 THEN xs[m + 1] ELSE (xs[m] + xs[m + 1]) \div 2)
        ELSE 0

median(nums) ==
    LET xs == SortAsc(nums)
        m == Len(xs) \div 2
    IN  IF Len(xs) # 0
        THEN (IF Len(xs) % 2 # 0 THEN xs[m + 1] ELSE (xs[m] + xs[m + 1]) \div 2)
        ELSE 0

-----------------------------------------------------------------------------
(* rmOutliers, lines 35-40 *)

rmOutliersInverted(xs) ==
    IF Len(xs) < 4 THEN xs
    ELSE LET med == median(xs)
             dev == median([i \in 1..Len(xs) |-> Abs(xs[i] - med)])
             mad == IF dev # 0 THEN dev ELSE 1
             Keep(x) == Abs(x - med) > 3 * mad
         IN  SelectSeq(xs, Keep)

rmOutliersNoSmallGuard(xs) ==
    LET med == median(xs)
        dev == median([i \in 1..Len(xs) |-> Abs(xs[i] - med)])
        mad == IF dev # 0 THEN dev ELSE 1
        Keep(x) == Abs(x - med) <= 3 * mad
    IN  SelectSeq(xs, Keep)

rmOutliersZeroWall(xs) ==
    IF Len(xs) < 4 THEN xs
    ELSE LET med == median(xs)
             mad == median([i \in 1..Len(xs) |-> Abs(xs[i] - med)])
             Keep(x) == Abs(x - med) <= 3 * mad
         IN  SelectSeq(xs, Keep)

rmOutliers(xs) ==
    IF Len(xs) < 4 THEN xs
    ELSE LET med == median(xs)
             dev == median([i \in 1..Len(xs) |-> Abs(xs[i] - med)])
             mad == IF dev # 0 THEN dev ELSE 1
             Keep(x) == Abs(x - med) <= 3 * mad
         IN  SelectSeq(xs, Keep)

-----------------------------------------------------------------------------
(* The recommendation formula, lines 58-61 *)

\* jitter = 0.12 as the fraction JitterNum / JitterDen
JitterNum == 12
JitterDen == 100
MinTip == 1000000

recommendMinusTip(baseMed, prioMed) ==
    LET tip == Max(prioMed, MinTip)
    IN  (baseMed * (JitterDen + JitterNum)) \div JitterDen - tip

recommendNoTipFloor(baseMed, prioMed) ==
    (baseMed * (JitterDen + JitterNum)) \div JitterDen + prioMed

recommend(baseMed, prioMed) ==
    LET tip == Max(prioMed, MinTip)
    IN  (baseMed * (JitterDen + JitterNum)) \div JitterDen + tip

-----------------------------------------------------------------------------
(* The provider table RPCS, lines 8-12.  env maps each environment variable *)
(* to its value; an unset variable reads as undefined, which `||` treats    *)
(* like the empty string, so both are "" here.                              *)

EnvVars == {"RPC_ANKR", "RPC_ALCH", "RPC_PUB"}
EnvValues == {"", "https://rpc.example"}

\* a || b on strings
Or(a, b) == IF a # "" THEN a ELSE b

\* Object.entries(RPCS): the [name, url] pairs in insertion order
RPCS(e) ==
    << [name |-> "ankr",    url |-> Or(e["RPC_ANKR"], "")],
       [name |-> "alchemy", url |-> Or(e["RPC_ALCH"], "")],
       [name |-> "public",  url |-> Or(e["RPC_PUB"], "https://cloudflare-eth.com")] >>

-----------------------------------------------------------------------------
(* What a provider can answer to eth_feeHistory.  An optional field is a    *)
(* sequence of length 0 (absent) or 1 (present).                            *)

\* Number("0x..."): the value of a sequence of hex digits
RECURSIVE HexToNumber(_)
HexToNumber(h) ==
    IF h = <<>> THEN 0 ELSE 16 * HexToNumber(SubSeq(h, 1, Len(h) - 1)) + h[Len(h)]

Hex0   == <<0>>
Hex10  == <<1, 0>>
Hex62  == <<6, 2>>
Hex64  == <<6, 4>>
Hex66  == <<6, 6>>
Hex1   == <<1>>
HexA   == <<10>>
Hex2M  == <<1, 14, 8, 4, 8, 0>>
Hex3M  == <<2, 13, 12, 6, 12, 0>>

BaseFields == { <<>>, << <<>> >>, << <<Hex64, Hex66>> >>, << <<Hex62, Hex64>> >>,
                << <<Hex66, Hex0>> >> }
RewardFields == { <<>>, << <<>> >>, << << <<>> >> >>,
                  << << <<Hex1, Hex2M, HexA>> >> >>,
                  << << <<Hex3M, Hex2M>> >> >> }
BlockFields == { <<>>, <<Hex10>> }

ObjectReplies ==
    [kind : {"object"}, baseFeePerGas : BaseFields, reward : RewardFields,
     oldestBlock : BlockFields]

\* p.send rejects (network or RPC error), or resolves to null
FailedReplies ==
    [kind : {"error", "null"}, baseFeePerGas : {<<>>}, reward : {<<>>},
     oldestBlock : {<<>>}]

Replies == ObjectReplies \cup FailedReplies

-----------------------------------------------------------------------------
(* sample, lines 14-27.  The result is <<>> for null and <<s>> for a Sample. *)

sample(name, fee) ==
    IF fee.kind # "object"
    THEN <<>>              \* p.send threw, or fee.baseFeePerGas threw on null
    ELSE
      LET baseHex == IF fee.baseFeePerGas # <<>> /\ fee.baseFeePerGas[1] # <<>>
                     THEN fee.baseFeePerGas[1][1] ELSE Hex0
          base == HexToNumber(baseHex)
          row == IF fee.reward # <<>> /\ fee.reward[1] # <<>>
                 THEN fee.reward[1][1] ELSE <<>>
          prios == [i \in 1..Len(row) |-> HexToNumber(row[i])]
          sorted == SortAsc(prios)
          prio == IF Len(sorted) # 0 THEN sorted[(Len(sorted) \div 2) + 1] ELSE 0
          blk == IF fee.oldestBlock # <<>> THEN HexToNumber(fee.oldestBlock[1]) ELSE 0
      IN  << [name |-> name, base |-> base, prio |-> prio, block |-> blk] >>

-----------------------------------------------------------------------------
(* The aggregation and the report, lines 53-70 *)

Bases(ss) == [i \in 1..Len(ss) |-> ss[i].base]
Prios(ss) == [i \in 1..Len(ss) |-> ss[i].prio]
Names(ss) == [i \in 1..Len(ss) |-> ss[i].name]

AggregateRowwise(ss) ==
    LET keptB == rmOutliers(Bases(ss))
        keptP == rmOutliers(Prios(ss))
        Survives(s) == s.base \in Range(keptB) /\ s.prio \in Range(keptP)
        rows == SelectSeq(ss, Survives)
        baseMed == median(Bases(rows))
        prioMed == median(Prios(rows))
    IN  [providers |-> Names(ss), baseMedianWei |-> baseMed,
         prioMedianWei |-> prioMed, recommendedWei |-> recommend(baseMed, prioMed)]

AggregateSurvivors(ss) ==
    LET keptB == rmOutliers(Bases(ss))
        keptP == rmOutliers(Prios(ss))
        Survives(s) == s.base \in Range(keptB) /\ s.prio \in Range(keptP)
        baseMed == median(keptB)
        prioMed == median(keptP)
    IN  [providers |-> Names(SelectSeq(ss, Survives)), baseMedianWei |-> baseMed,
         prioMedianWei |-> prioMed, recommendedWei |-> recommend(baseMed, prioMed)]

Aggregate(ss) ==
    LET bases == rmOutliers(Bases(ss))
        prios == rmOutliers(Prios(ss))
        baseMed == median(bases)
        prioMed == median(prios)
        rec == recommend(baseMed, prioMed)
    IN  [providers |-> Names(ss), baseMedianWei |-> baseMed,
         prioMedianWei |-> prioMed, recommendedWei |-> rec]

-----------------------------------------------------------------------------
(* The run, lines 42-71.  stdout and stderr are the lines written so far;  *)
(* exitCode is <<>> while the process runs and <<c>> once it ended with c;  *)
(* replies records what each queried provider answered.  main gives up     *)
(* control at each await: pc is "collect" at the head of the loop,          *)
(* "sent" while the query of provider idx is in flight (await of line 17,   *)
(* main suspended at line 46), "resolved" once sample has returned and its  *)
(* result (resolved: <<>> for null, <<s>> for a Sample) waits for main to   *)
(* resume at line 46.  A query is taken to settle (ethers resolves or       *)
(* rejects every request, at the latest by its timeout).                    *)

NoCall == [fn |-> "none"]

FnIdle ==
    /\ arg = <<>>
    /\ baseArg = 0
    /\ prioArg = 0
    /\ ret = NoCall

Init ==
    /\ pc = "collect"
    /\ env \in [EnvVars -> EnvValues]
    /\ idx = 1
    /\ samples = <<>>
    /\ replies = <<>>
    /\ resolved = <<>>
    /\ stdout = <<>>
    /\ stderr = <<>>
    /\ exitCode = <<>>
    /\ FnIdle

\* one iteration of the loop with an empty url: continue
SkipProvider ==
    /\ pc = "collect"
    /\ idx <= Len(RPCS(env))
    /\ RPCS(env)[idx].url = ""
    /\ idx' = idx + 1
    /\ UNCHANGED <<pc, env, samples, replies, resolved, stdout, stderr, exitCode>>
    /\ UNCHANGED fnVars

\* lines 44-46 and 16-17: an iteration with a url calls sample, which sends
\* eth_feeHistory and awaits the reply; control returns to the event loop
SendQuery ==
    /\ pc = "collect"
    /\ idx <= Len(RPCS(env))
    /\ RPCS(env)[idx].url # ""
    /\ pc' = "sent"
    /\ UNCHANGED <<env, idx, samples, replies, resolved, stdout, stderr, exitCode>>
    /\ UNCHANGED fnVars

\* lines 17-26: the reply settles and sample resumes: it parses the reply and
\* returns a Sample, or returns null from the catch
ReplySettles ==
    /\ pc = "sent"
    /\ \E fee \in Replies :
         /\ resolved' = sample(RPCS(env)[idx].name, fee)
         /\ replies' = Append(replies, [name |-> RPCS(env)[idx].name, fee |-> fee])
    /\ pc' = "resolved"
    /\ UNCHANGED <<env, idx, samples, stdout, stderr, exitCode>>
    /\ UNCHANGED fnVars

\* lines 46-47: main resumes with sample's result and pushes it if not null
PushSample ==
    /\ pc = "resolved"
    /\ samples' = samples \o resolved
    /\ resolved' = <<>>
    /\ idx' = idx + 1
    /\ pc' = "collect"
    /\ UNCHANGED <<env, replies, stdout, stderr, exitCode>>
    /\ UNCHANGED fnVars

NoSamplesFallThrough ==
    /\ pc = "collect"
    /\ idx > Len(RPCS(env))
    /\ Len(samples) = 0
    /\ stderr' = Append(stderr, "no samples")
    /\ stdout' = Append(stdout, Aggregate(samples))
    /\ exitCode' = <<0>>
    /\ pc' = "done"
    /\ UNCHANGED <<env, idx, samples, replies, resolved>>
    /\ UNCHANGED fnVars

\* lines 49-51: console.error and process.exit(1), which ends the process
NoSamples ==
    /\ pc = "collect"
    /\ idx > Len(RPCS(env))
    /\ Len(samples) = 0
    /\ stderr' = Append(stderr, "no samples")
    /\ exitCode' = <<1>>
    /\ pc' = "exited"
    /\ UNCHANGED <<env, idx, samples, replies, resolved, stdout>>
    /\ UNCHANGED fnVars

\* lines 53-70: aggregate and print the report; the process then ends normally
Report ==
    /\ pc = "collect"
    /\ idx > Len(RPCS(env))
    /\ Len(samples) # 0
    /\ stdout' = Append(stdout, Aggregate(samples))
    /\ exitCode' = <<0>>
    /\ pc' = "done"
    /\ UNCHANGED <<env, idx, samples, replies, resolved, stderr>>
    /\ UNCHANGED fnVars

Next == SkipProvider \/ SendQuery \/ ReplySettles \/ PushSample \/ NoSamples \/ Report

Spec == Init /\ [][Next]_vars

-----------------------------------------------------------------------------
(* SpecAgg: lines 49-70 applied to a SampleSet of 0..MaxSamples samples.    *)
(* The loop is over; the i-th sample carries the i-th provider name.        *)

\* two fee values far enough apart for the filter to drop one of them
AggFees == {1, 9}

AggName(i) == "provider" \o ToString(i)

AggSampleSet(n, f) ==
    [i \in 1..n |-> [name |-> AggName(i), base |-> f[i][1], prio |-> f[i][2], block |-> 1]]

InitAgg ==
    /\ pc = "collect"
    /\ env = [v \in EnvVars |-> "https://rpc.example"]
    /\ idx = Len(RPCS(env)) + 1
    /\ \E n \in 0..MaxSamples : \E f \in [1..n -> AggFees \X AggFees] :
          samples = AggSampleSet(n, f)
    /\ replies = <<>>
    /\ resolved = <<>>
    /\ stdout = <<>>
    /\ stderr = <<>>
    /\ exitCode = <<>>
    /\ FnIdle

NextAgg == NoSamples \/ Report

SpecAgg == InitAgg /\ [][NextAgg]_vars

-----------------------------------------------------------------------------
(* SpecFn: median, rmOutliers and the formula applied to bounded inputs.    *)

Example == <<100, 102, 98, 101, 99, 9999>>

BaseArgs == 0..MaxBase \cup {100, 10000000}

PrioArgs == {0, 1, MinTip - 1, MinTip, MinTip + 1, 2 * MinTip}

InitFn ==
    /\ pc = "fn"
    /\ env = [v \in EnvVars |-> ""]
    /\ idx = 1
    /\ samples = <<>>
    /\ replies = <<>>
    /\ resolved = <<>>
    /\ stdout = <<>>
    /\ stderr = <<>>
    /\ exitCode = <<>>
    /\ \/ (\E n \in 0..MaxLen : arg \in [1..n -> 0..MaxVal]) /\ baseArg = 0 /\ prioArg = 0
       \/ arg = Example /\ baseArg = 0 /\ prioArg = 0
       \/ arg = <<>> /\ baseArg \in BaseArgs /\ prioArg \in PrioArgs
    /\ ret = NoCall

FnFrame == UNCHANGED <<pc, env, idx, samples, replies, resolved, stdout, stderr, exitCode,
                       arg, baseArg, prioArg>>

CallMedian ==
    /\ pc = "fn"
    /\ ret.fn = "none"
    /\ ret' = [fn |-> "median", val |-> median(arg)]
    /\ FnFrame

CallRmOutliers ==
    /\ pc = "fn"
    /\ ret.fn = "none"
    /\ ret' = [fn |-> "rmOutliers", val |-> rmOutliers(arg)]
    /\ FnFrame

CallRecommend ==
    /\ pc = "fn"
    /\ ret.fn = "none"
    /\ ret' = [fn |-> "recommend", val |-> recommend(baseArg, prioArg)]
    /\ FnFrame

NextFn == CallMedian \/ CallRmOutliers \/ CallRecommend

SpecFn == InitFn /\ [][NextFn]_vars

-----------------------------------------------------------------------------
(* Reference definitions the claims are stated with.  They are declarative  *)
(* (by rank and by index sets) and share nothing with the operators above.  *)

\* the element of rank k (from 0) of s in ascending order
RefRank(s, k) ==
    CHOOSE v \in Range(s) :
        /\ Cardinality({i \in 1..Len(s) : s[i] < v}) <= k
        /\ Cardinality({i \in 1..Len(s) : s[i] <= v}) > k

\* the integer floor of a / b for a >= 0, b > 0
RefFloorDiv(a, b) == CHOOSE q \in 0..a : b * q <= a /\ a < b * (q + 1)

RefMedian(s) ==
    LET n == Len(s)
        h == RefFloorDiv(n, 2)
    IN  IF n = 0 THEN 0
        ELSE IF n % 2 = 1 THEN RefRank(s, h)
        ELSE RefFloorDiv(RefRank(s, h - 1) + RefRank(s, h), 2)

\* |x - c| without the model's Abs
RefDist(x, c) == IF x >= c THEN x - c ELSE c - x

\* the sequence of distances of the elements of s to c
RefDevs(s, c) == [i \in 1..Len(s) |-> RefDist(s[i], c)]

\* r is s restricted to the indices in I, in their original order
IsRestriction(r, s, I) ==
    /\ Len(r) = Cardinality(I)
    /\ \A j \in I : r[Cardinality({i \in I : i <= j})] = s[j]

\* r is the reference filter of s: the elements within 3*mad of the median
IsRefFilter(r, s) ==
    LET med == RefMedian(s)
        d == RefMedian(RefDevs(s, med))
        mad == IF d = 0 THEN 1 ELSE d
    IN  IsRestriction(r, s, {i \in 1..Len(s) : RefDist(s[i], med) <= 3 * mad})

\* the input is in the zero-MAD case: at least 4 elements, median deviation 0
ZeroMad(s) == Len(s) >= 4 /\ RefMedian(RefDevs(s, RefMedian(s))) = 0

-----------------------------------------------------------------------------
(* Claims *)

\* C1: a run whose SampleSet is empty writes "no samples" to stderr and exits
\* with status 1 without printing a Recommendation; a Recommendation is
\* printed only when at least one Sample was collected, and no run both fails
\* and prints a Recommendation.
C1_EmptyRunFails ==
    /\ (pc \in {"done", "exited"} /\ Len(samples) = 0)
          => (exitCode = <<1>> /\ stdout = <<>> /\ stderr = <<"no samples">>)
    /\ stdout # <<>> => (Len(samples) >= 1 /\ exitCode = <<0>> /\ stderr = <<>>)
    /\ exitCode = <<1>> => stdout = <<>>

\* C1 witness: providers were queried, none gave a Sample, the run failed
C1_Witness ==
    /\ exitCode = <<1>>
    /\ Len(replies) >= 2
    /\ stdout = <<>>

\* C2: median(xs) is 0 for the empty sequence, the element of rank floor(n/2)
\* of the ascending order for odd n, and the floor of the mean of the elements
\* of ranks n/2 - 1 and n/2 for even n.
C2_Median ==
    ret.fn = "median" =>
        /\ ret.val = RefMedian(arg)
        /\ arg = <<>> => ret.val = 0
        /\ arg = <<1, 3>> => ret.val = 2
        /\ arg = <<1, 2, 3>> => ret.val = 2

\* C2 witness: an unsorted even-length input whose mean is rounded down
C2_Witness ==
    /\ ret.fn = "median"
    /\ arg = <<4, 0, 3, 1>>
    /\ ret.val = 2

\* C3: rmOutliers(xs) is xs itself below 4 elements; otherwise exactly the
\* elements with |x - med| <= 3*mad, in their original order, where med is the
\* median and mad the median of the deviations (1 when that median is 0).
C3_Filter ==
    ret.fn = "rmOutliers" =>
        /\ Len(arg) < 4 => ret.val = arg
        /\ Len(arg) >= 4 => IsRefFilter(ret.val, arg)
        /\ arg = Example => ret.val = <<100, 102, 98, 101, 99>>

\* C3 witness: the example of the specification, with 9999 dropped
C3_Witness ==
    /\ ret.fn = "rmOutliers"
    /\ arg = Example
    /\ ret.val = <<100, 102, 98, 101, 99>>

\* C4: the recommended fee is floor(baseFeeMedian * 1.12) +
\* max(priorityFeeMedian, 1000000); for priorityFeeMedian = 0 it is
\* floor(baseFeeMedian * 1.12) + 1000000.  (fl = floor(112*b/100) is stated
\* as 100*fl <= 112*b < 100*(fl+1).)
C4_Formula ==
    ret.fn = "recommend" =>
        LET tip == CHOOSE t \in {prioArg, 1000000} : t >= prioArg /\ t >= 1000000
            fl == ret.val - tip
        IN  /\ 100 * fl <= 112 * baseArg
            /\ 112 * baseArg < 100 * (fl + 1)
            /\ prioArg = 0 => tip = 1000000

\* C4 witness: a base whose 12% buffer is rounded down, with a zero tip median
C4_Witness ==
    /\ ret.fn = "recommend"
    /\ baseArg = 7
    /\ prioArg = 0
    /\ ret.val = 1000007

\* C8: the formula is monotonic non-decreasing in each input.
C8_Monotonic ==
    ret.fn = "recommend" =>
        /\ \A b2 \in BaseArgs : baseArg <= b2 => ret.val <= recommend(b2, prioArg)
        /\ \A p2 \in PrioArgs : prioArg <= p2 => ret.val <= recommend(baseArg, p2)

\* C8 witness: a call with both a larger base and a larger tip median to compare with
C8_Witness ==
    /\ ret.fn = "recommend"
    /\ baseArg = 7
    /\ prioArg = MinTip
    /\ ret.val < recommend(baseArg + 1, prioArg)
    /\ ret.val < recommend(baseArg, prioArg + 1)

\* C9: rmOutliers of a non-empty sequence is non-empty.
C9_NeverEmpty ==
    (ret.fn = "rmOutliers" /\ arg # <<>>) => ret.val # <<>>

\* C9 witness: an even-length input whose floored median is not one of its
\* elements and from which the filter drops something
C9_Witness ==
    /\ ret.fn = "rmOutliers"
    /\ Len(arg) >= 4
    /\ Len(arg) % 2 = 0
    /\ RefMedian(arg) \notin Range(arg)
    /\ Len(ret.val) < Len(arg)
    /\ ret.val # <<>>

\* C10 as stated: in the zero-MAD case only points more than 3 units away
\* from the median survive the filter.
C10_OnlyFarSurvive ==
    (ret.fn = "rmOutliers" /\ ZeroMad(arg)) =>
        LET med == RefMedian(arg)
        IN  \A x \in Range(ret.val) : RefDist(x, med) > 3

\* C10 amended: in the zero-MAD case exactly the points at most 3 units away
\* from the median survive the filter; points more than 3 units away are dropped.
C10_ExactlyNearSurvive ==
    (ret.fn = "rmOutliers" /\ ZeroMad(arg)) =>
        LET med == RefMedian(arg)
        IN  IsRestriction(ret.val, arg, {i \in 1..Len(arg) : RefDist(arg[i], med) <= 3})

\* C10 witness: a zero-MAD input with a point 3 away (kept) and one 4 away (dropped)
C10_Witness ==
    /\ ret.fn = "rmOutliers"
    /\ arg = <<1, 5, 1, 4, 1>>
    /\ ret.val = <<1, 1, 4, 1>>

\* a reply from which no fee data can be parsed: the query failed, or the
\* response lacks the base-fee or the reward field
Unparsable(fee) ==
    \/ fee.kind # "object"
    \/ fee.baseFeePerGas = <<>>
    \/ fee.reward = <<>>

\* C5: a provider whose query failed or whose response is malformed (for
\* example missing the base-fee or reward fields) yields no Sample, so it
\* never appears in the SampleSet.
C5_NoSampleFromUnparsable ==
    \A k \in 1..Len(replies) :
        Unparsable(replies[k].fee) =>
            \A i \in 1..Len(samples) : samples[i].name # replies[k].name

\* C6: the providers of a printed Recommendation are the names of all samples
\* of the SampleSet, in collection order, whatever the outlier filter removed.
C6_AllProvidersListed ==
    stdout # <<>> =>
        /\ Len(stdout[1].providers) = Len(samples)
        /\ \A i \in 1..Len(samples) : stdout[1].providers[i] = samples[i].name

\* C6 witness: a Recommendation was printed although the filter removed the
\* base fee of one provider and the priority fee of another
C6_Witness ==
    /\ stdout # <<>>
    /\ Len(rmOutliers(Bases(samples))) < Len(samples)
    /\ Len(rmOutliers(Prios(samples))) < Len(samples)
    /\ \E i \in 1..Len(samples) :
          /\ samples[i].base \notin Range(rmOutliers(Bases(samples)))
          /\ samples[i].name \in Range(stdout[1].providers)

\* the SampleSet ss with its base (priority) column replaced by col
WithBases(ss, col) == [i \in 1..Len(ss) |-> [ss[i] EXCEPT !.base = col[i]]]
WithPrios(ss, col) == [i \in 1..Len(ss) |-> [ss[i] EXCEPT !.prio = col[i]]]

\* C7: the columns are filtered independently: the printed priorityFeeMedian
\* is the one of every SampleSet of the same length with the same priority
\* column, whatever its base column, and symmetrically for baseFeeMedian.
C7_ColumnsIndependent ==
    stdout # <<>> =>
        \A col \in [1..Len(samples) -> AggFees] :
            /\ Aggregate(WithBases(samples, col)).prioMedianWei = stdout[1].prioMedianWei
            /\ Aggregate(WithPrios(samples, col)).baseMedianWei = stdout[1].baseMedianWei

\* C7 witness: an outlier was filtered out of the base column while the
\* priority column kept all its values and is not constant
C7_Witness ==
    /\ stdout # <<>>
    /\ Len(rmOutliers(Bases(samples))) < Len(samples)
    /\ rmOutliers(Prios(samples)) = Prios(samples)
    /\ Cardinality(Range(Prios(samples))) > 1
    /\ stdout[1].prioMedianWei = median(Prios(samples))

====
